---- MODULE Spec2Model ----
(***************************************************************************)
(* Model of main.py: a FastAPI service with four routes (POST /register,   *)
(* POST /login, POST /posts, GET /posts) over two module-level dicts,      *)
(* users_db and posts_db.                                                  *)
(*                                                                         *)
(* Spec     : requests are served one at a time; each handler is one       *)
(*            atomic action and `last` holds the HTTP response of the      *)
(*            latest request.                                              *)
(* SpecConc : requests are served by worker threads (FastAPI runs `def`    *)
(*            handlers in a thread pool); a handler is a sequence of       *)
(*            steps, one per access to the shared dicts, and th[t] holds   *)
(*            thread t's position, locals and latest response.             *)
(***************************************************************************)
EXTENDS Integers, Sequences, FiniteSets, TLC

\* ---------------------------------------------------------------- inputs
Usernames == {"alice", "bob"}
\* two passwords that differ only in case: the comparison is verbatim
Passwords == {"pw1", "PW1"}
Contents  == {"hello world", "bye"}
Threads   == {"t1", "t2"}

\* datetime.now() is the wall clock: any value of Times may be read
MaxTime == 1
Times   == 0..MaxTime
\* posts stored (or about to be stored) at most
MaxPosts == 2
\* requests started under SpecConc at most
MaxRequests == 4

Users == [username : Usernames, password : Passwords]
Posts == [content : Contents, username : Usernames]

VARIABLES
    users_db,   \* username -> [id, password]                       (line 10)
    posts_db,   \* insertion-ordered dict: sequence of [key, value] (line 11)
    uuids,      \* number of uuid4() values drawn so far
    last,       \* Spec: the response to the latest request
    created,    \* Spec: history of the POST /posts requests answered 200
    th,         \* SpecConc: per worker thread, its position and locals
    started     \* SpecConc: number of requests started

vars == <<users_db, posts_db, uuids, last, created, th, started>>

\* ---------------------------------------------------------------- helpers

\* str(uuid4()): a value no earlier call returned, named by its draw order
Uuid4Stale == IF uuids = 0 THEN 1 ELSE uuids
Uuid4 == uuids + 1

\* d[k] = v on a dict whose order is not observed (users_db)
DictSet(d, k, v) == [x \in DOMAIN d \cup {k} |-> IF x = k THEN v ELSE d[x]]

\* d[k] = v on an insertion-ordered dict: an existing key keeps its place
OrderedDictSet(d, k, v) ==
    IF \E i \in 1..Len(d) : d[i].key = k
    THEN [i \in 1..Len(d) |-> IF d[i].key = k THEN [key |-> k, value |-> v] ELSE d[i]]
    ELSE Append(d, [key |-> k, value |-> v])

\* d.values()
ValuesReversed(d) == [i \in 1..Len(d) |-> d[Len(d) + 1 - i].value]
Values(d) == [i \in 1..Len(d) |-> d[i].value]

\* raise HTTPException(status_code=..., detail=...)
HTTPException(status_code, detail) ==
    [status_code |-> status_code, body |-> [detail |-> detail]]

\* a handler's return value, serialised with status 200
OK(body) == [status_code |-> 200, body |-> body]

\* class UserInDB(User): id, username, password
UserInDB(id, username, password) ==
    [id |-> id, username |-> username, password |-> password]

\* class Post(BaseModel): content, username.  Building a Post from a mapping
\* keeps the declared fields and ignores every other key.
Post(obj) == [content |-> obj.content, username |-> obj.username]

\* response_model=UserInDB / Post / List[Post]: the return value is
\* validated into the declared model before it is serialised
ResponseUserInDB(ret) == UserInDB(ret.id, ret.username, ret.password)
ResponsePost(ret) == Post(ret)
ResponseListPost(ret) == [items |-> [i \in 1..Len(ret) |-> Post(ret[i])]]

\* authenticate_user: the user record, or the 401 it raises
authenticate_user_anyPassword(username, password) ==
    IF username \in DOMAIN users_db
    THEN [raised |-> FALSE,
          value |-> UserInDB(users_db[username].id, username, password)]
    ELSE [raised |-> TRUE, exc |-> HTTPException(401, "Invalid credentials")]
authenticate_user(username, password) ==
    IF username \in DOMAIN users_db /\ users_db[username].password = password
    THEN [raised |-> FALSE,
          value |-> UserInDB(users_db[username].id, username, password)]
    ELSE [raised |-> TRUE, exc |-> HTTPException(401, "Invalid credentials")]

\* line 44: if user.username in users_db
UsernameExistsNever(user) == FALSE
UsernameExistsSamePassword(user) ==
    /\ user.username \in DOMAIN users_db
    /\ users_db[user.username].password = user.password
UsernameExists(user) == user.username \in DOMAIN users_db

\* line 49: users_db[user.username] = {"id": user_id, "password": user.password}
RegisterStoreIfAbsent(user, user_id) ==
    IF user.username \in DOMAIN users_db
    THEN users_db
    ELSE DictSet(users_db, user.username,
                 [id |-> user_id, password |-> user.password])
RegisterStore(user, user_id) ==
    DictSet(users_db, user.username, [id |-> user_id, password |-> user.password])

\* line 72: if post.username not in users_db
UserNotFoundNever(post) == FALSE
UserNotFound(post) == post.username \notin DOMAIN users_db

\* line 83: posts_db[post_id] = {"content":..., "username":..., "created_at":...}
PostStore(post, post_id, created_at) ==
    OrderedDictSet(posts_db, post_id,
        [content |-> post.content, username |-> post.username,
         created_at |-> created_at])

\* line 86: return {**post.dict(), "created_at": created_at}
CreatePostReturn(post, created_at) ==
    [content |-> post.content, username |-> post.username,
     created_at |-> created_at]

\* the response recorded for a request
Response(op, req, resp) ==
    [op |-> op, req |-> req, status_code |-> resp.status_code, body |-> resp.body]

NoRequest == [op |-> "none", req |-> [none |-> TRUE], status_code |-> 0,
              body |-> [none |-> TRUE]]

\* ------------------------------------------------- Spec: atomic handlers

\* POST /register (lines 38-52)
register(user) ==
    /\ IF UsernameExists(user)
       THEN /\ last' = Response("register", user,
                           HTTPException(400, "Username already exists"))
            /\ UNCHANGED <<users_db, uuids>>
       ELSE LET user_id == Uuid4 IN
            /\ uuids' = uuids + 1
            /\ users_db' = RegisterStore(user, user_id)
            /\ last' = Response("register", user,
                  OK(ResponseUserInDB(UserInDB(user_id, user.username, user.password))))
    /\ UNCHANGED <<posts_db, created, th, started>>

\* POST /login (lines 55-62)
login(user) ==
    /\ LET a == authenticate_user(user.username, user.password) IN
       last' = Response("login", user,
                   IF a.raised THEN a.exc
                   ELSE OK([message |-> <<"Welcome, ", user.username, "!">>]))
    /\ UNCHANGED <<users_db, posts_db, uuids, created, th, started>>

\* POST /posts (lines 65-86)
create_post_storeFirst(post) ==
    \E created_at \in Times :
        /\ Len(posts_db) < MaxPosts
        /\ uuids' = uuids + 1
        /\ posts_db' = PostStore(post, Uuid4, created_at)
        /\ IF UserNotFound(post)
           THEN /\ last' = Response("create_post", post,
                               HTTPException(404, "User not found"))
                /\ UNCHANGED created
           ELSE /\ last' = Response("create_post", post,
                               OK(ResponsePost(CreatePostReturn(post, created_at))))
                /\ created' = Append(created, Post(post))
        /\ UNCHANGED <<users_db, th, started>>
create_post(post) ==
    IF UserNotFound(post)
    THEN /\ last' = Response("create_post", post,
                        HTTPException(404, "User not found"))
         /\ UNCHANGED <<users_db, posts_db, uuids, created, th, started>>
    ELSE IF post.username \notin DOMAIN users_db
    THEN \* line 76 raises KeyError: answered 500
         /\ last' = Response("create_post", post,
                        HTTPException(500, "Internal Server Error"))
         /\ UNCHANGED <<users_db, posts_db, uuids, created, th, started>>
    ELSE \E created_at \in Times :
         LET user_id == users_db[post.username].id
             post_id == Uuid4
         IN  /\ Len(posts_db) < MaxPosts
             /\ uuids' = uuids + 1
             /\ posts_db' = PostStore(post, post_id, created_at)
             /\ last' = Response("create_post", post,
                            OK(ResponsePost(CreatePostReturn(post, created_at))))
             /\ created' = Append(created, Post(post))
             /\ UNCHANGED <<users_db, th, started>>

\* GET /posts (lines 89-99)
get_posts ==
    /\ last' = Response("get_posts", [none |-> TRUE],
                   OK(ResponseListPost(Values(posts_db))))
    /\ UNCHANGED <<users_db, posts_db, uuids, created, th, started>>

Idle == [pc |-> "idle", op |-> "none", req |-> [none |-> TRUE], n |-> 0,
         resp |-> [status_code |-> 0, body |-> [none |-> TRUE]]]

Init ==
    /\ users_db = [u \in {} |-> [id |-> 0, password |-> ""]]
    /\ posts_db = <<>>
    /\ uuids = 0
    /\ last = NoRequest
    /\ created = <<>>
    /\ th = [t \in Threads |-> Idle]
    /\ started = 0

Next ==
    \/ \E user \in Users : register(user)
    \/ \E user \in Users : login(user)
    \/ \E post \in Posts : create_post(post)
    \/ get_posts

Spec == Init /\ [][Next]_vars

\* --------------------------------------- SpecConc: handlers step by step

Running(t, op, req, pc) ==
    [pc |-> pc, op |-> op, req |-> req, n |-> 0,
     resp |-> [status_code |-> 0, body |-> [none |-> TRUE]]]

Done(t, resp) ==
    [pc |-> "idle", op |-> th[t].op, req |-> th[t].req, n |-> 0, resp |-> resp]

Accept(t) == th[t].pc = "idle" /\ started < MaxRequests

\* POST /register, lines 44-45: the existence check
RegisterCheck(t, user) ==
    /\ Accept(t)
    /\ started' = started + 1
    /\ th' = [th EXCEPT ![t] =
                IF UsernameExists(user)
                THEN [Running(t, "register", user, "idle") EXCEPT
                        !.resp = HTTPException(400, "Username already exists")]
                ELSE Running(t, "register", user, "register:48")]
    /\ UNCHANGED <<users_db, posts_db, uuids, last, created>>

\* POST /register, lines 48-52: draw the id, write the record, return
RegisterWrite(t) ==
    /\ th[t].pc = "register:48"
    /\ LET user == th[t].req
           user_id == Uuid4
       IN  /\ uuids' = uuids + 1
           /\ users_db' = RegisterStore(user, user_id)
           /\ th' = [th EXCEPT ![t] = Done(t,
                  OK(ResponseUserInDB(UserInDB(user_id, user.username, user.password))))]
    /\ UNCHANGED <<posts_db, last, created, started>>

\* POST /login, lines 61-62
Login(t, user) ==
    /\ Accept(t)
    /\ started' = started + 1
    /\ LET a == authenticate_user(user.username, user.password) IN
       th' = [th EXCEPT ![t] =
                [Running(t, "login", user, "idle") EXCEPT
                    !.resp = IF a.raised THEN a.exc
                             ELSE OK([message |-> <<"Welcome, ", user.username, "!">>])]]
    /\ UNCHANGED <<users_db, posts_db, uuids, last, created>>

\* posts stored, or past the check of line 72 and about to be stored
PostsInFlight ==
    Len(posts_db)
    + Cardinality({t \in Threads : th[t].pc \in {"create_post:76", "create_post:79"}})

\* POST /posts, lines 72-73: the author check
CreatePostCheckSkipped(t, post) ==
    /\ Accept(t)
    /\ PostsInFlight < MaxPosts
    /\ started' = started + 1
    /\ th' = [th EXCEPT ![t] = Running(t, "create_post", post, "create_post:79")]
    /\ UNCHANGED <<users_db, posts_db, uuids, last, created>>
CreatePostCheck(t, post) ==
    /\ Accept(t)
    /\ UserNotFound(post) \/ PostsInFlight < MaxPosts
    /\ started' = started + 1
    /\ th' = [th EXCEPT ![t] =
                IF UserNotFound(post)
                THEN [Running(t, "create_post", post, "idle") EXCEPT
                        !.resp = HTTPException(404, "User not found")]
                ELSE Running(t, "create_post", post, "create_post:76")]
    /\ UNCHANGED <<users_db, posts_db, uuids, last, created>>

\* POST /posts, line 76: user_id = users_db[post.username]["id"]
CreatePostLookup(t) ==
    /\ th[t].pc = "create_post:76"
    /\ th' = [th EXCEPT ![t] =
                IF th[t].req.username \in DOMAIN users_db
                THEN [th[t] EXCEPT !.pc = "create_post:79"]
                ELSE Done(t, HTTPException(500, "Internal Server Error"))]
    /\ UNCHANGED <<users_db, posts_db, uuids, last, created, started>>

\* POST /posts, lines 79-86: draw the id, read the clock, write, return
CreatePostWrite(t) ==
    /\ th[t].pc = "create_post:79"
    /\ \E created_at \in Times :
        LET post == th[t].req
            post_id == Uuid4
        IN  /\ uuids' = uuids + 1
            /\ posts_db' = PostStore(post, post_id, created_at)
            /\ th' = [th EXCEPT ![t] = Done(t,
                        OK(ResponsePost(CreatePostReturn(post, created_at))))]
    /\ UNCHANGED <<users_db, last, created, started>>

\* GET /posts, line 98: iter(posts_db.values()) remembers the dict's size
GetPostsIter(t) ==
    /\ Accept(t)
    /\ started' = started + 1
    /\ th' = [th EXCEPT ![t] =
                [Running(t, "get_posts", [none |-> TRUE], "get_posts:96") EXCEPT
                    !.n = Len(posts_db)]]
    /\ UNCHANGED <<users_db, posts_db, uuids, last, created>>

\* GET /posts, lines 96-99: the iterator's last step.  A dict whose size
\* changed since iter() makes next() raise RuntimeError: answered 500.
GetPostsReturn(t) ==
    /\ th[t].pc = "get_posts:96"
    /\ th' = [th EXCEPT ![t] =
                IF Len(posts_db) # th[t].n
                THEN Done(t, HTTPException(500, "Internal Server Error"))
                ELSE Done(t, OK(ResponseListPost(Values(posts_db))))]
    /\ UNCHANGED <<users_db, posts_db, uuids, last, created, started>>

NextConc ==
    \E t \in Threads :
        \/ \E user \in Users : RegisterCheck(t, user)
        \/ RegisterWrite(t)
        \/ \E user \in Users : Login(t, user)
        \/ \E post \in Posts : CreatePostCheck(t, post)
        \/ CreatePostLookup(t)
        \/ CreatePostWrite(t)
        \/ GetPostsIter(t)
        \/ GetPostsReturn(t)

SpecConc == Init /\ [][NextConc]_vars


\* ------------------------------------------------------------ properties

\* C1: in a sequential run a register request is answered 400 exactly when
\* its username is a key of users_db before the request, and 200 otherwise;
\* a register of the username whose registration was just answered 200 is
\* answered 400, whatever its password.
C1_RegisterConflictIffExists ==
    [][\A user \in Users : register(user) =>
        /\ last'.status_code =
              (IF user.username \in DOMAIN users_db THEN 400 ELSE 200)
        /\ (last.op = "register" /\ last.status_code = 200
              /\ last.req.username = user.username)
           => last'.status_code = 400]_vars

\* a second registration of a stored username, with another password, was refused
C1_Witness ==
    /\ last.op = "register"
    /\ last.status_code = 400
    /\ last.req.username \in DOMAIN users_db
    /\ users_db[last.req.username].password # last.req.password

\* C2: in a sequential run a login request is answered 200 exactly when its
\* username is in users_db with a stored password equal to the supplied one,
\* and 401 otherwise; right after register(u, p) was answered 200, login(u, q)
\* is answered 200 exactly when q = p.
C2_LoginIffStoredPassword ==
    [][\A user \in Users : login(user) =>
        /\ last'.status_code =
              (IF /\ user.username \in DOMAIN users_db
                  /\ users_db[user.username].password = user.password
               THEN 200 ELSE 401)
        /\ (last.op = "register" /\ last.status_code = 200
              /\ last.req.username = user.username)
           => (last'.status_code = 200 <=> user.password = last.req.password)]_vars

\* a registered user's login with a password of another case was refused
C2_Witness ==
    /\ last.op = "login"
    /\ last.status_code = 401
    /\ last.req.username \in DOMAIN users_db
    /\ users_db[last.req.username].password # last.req.password

\* C3: a create_post request is answered 404 exactly when its username is
\* not in users_db before the request and 200 otherwise, whatever the latest
\* request was; answered 200 it appends exactly one entry, the post, to the
\* Post Store; no step removes or alters a stored entry, and a list-posts
\* response holds every stored post.
C3_CreatePost ==
    [][/\ \A post \in Posts : create_post(post) =>
            /\ last'.status_code =
                  (IF post.username \in DOMAIN users_db THEN 200 ELSE 404)
            /\ last'.status_code = 200 =>
                  /\ Len(posts_db') = Len(posts_db) + 1
                  /\ Post(posts_db'[Len(posts_db')].value) = post
       /\ \A i \in 1..Len(posts_db) :
            i <= Len(posts_db') /\ posts_db'[i] = posts_db[i]
       /\ get_posts =>
            \A i \in 1..Len(posts_db) :
                \E j \in 1..Len(last'.body.items) :
                    last'.body.items[j] = Post(posts_db[i].value)]_vars

\* a second post was created, with no login as the latest request
C3_Witness ==
    /\ last.op = "create_post"
    /\ last.status_code = 200
    /\ Len(posts_db) = 2
    /\ Post(posts_db[2].value) = last.req

\* C4: the response to a POST /posts answered 200 holds content, username
\* and created_at, created_at being the timestamp stored for the post.
C4_ResponseHasCreatedAt ==
    (last.op = "create_post" /\ last.status_code = 200) =>
        /\ DOMAIN last.body = {"content", "username", "created_at"}
        /\ last.body.created_at = posts_db[Len(posts_db)].value.created_at

C6_UsersImmutable ==
    [][\A u \in DOMAIN users_db :
        u \in DOMAIN users_db' /\ users_db'[u] = users_db[u]]_vars

\* a registered username was registered again with another password, after
\* other requests
C6_Witness ==
    /\ last.op = "register"
    /\ last.status_code = 400
    /\ users_db[last.req.username].password # last.req.password
    /\ users_db[last.req.username].id < uuids

\* a thread holding the 200 response of a register request for username
Registered(t, username) ==
    /\ th[t].pc = "idle"
    /\ th[t].op = "register"
    /\ th[t].resp.status_code = 200
    /\ th[t].req.username = username

\* C7: a register request that passed the existence check writes its record
\* and is answered 200 even when another request registered the same
\* username since the check: the record then stored is the later writer's,
\* and the earlier caller holds a different id, which is no longer stored.
C7_CheckThenWriteRace ==
    [][\A t \in Threads : RegisterWrite(t) =>
        LET user == th[t].req IN
        /\ th'[t].resp.status_code = 200
        /\ users_db'[user.username] =
              [id |-> th'[t].resp.body.id, password |-> user.password]
        /\ \A t2 \in Threads \ {t} : Registered(t2, user.username) =>
              /\ th[t2].resp.body.id # th'[t].resp.body.id
              /\ users_db'[user.username].id # th[t2].resp.body.id]_vars

\* both requests for one username were answered 200, with different ids and
\* passwords; t1's id and password are not the ones stored
C7_Witness ==
    \E t1, t2 \in Threads : \E u \in Usernames :
        /\ t1 # t2
        /\ Registered(t1, u) /\ Registered(t2, u)
        /\ th[t1].resp.body.id # th[t2].resp.body.id
        /\ th[t1].req.password # th[t2].req.password
        /\ users_db[u].id = th[t2].resp.body.id
        /\ users_db[u].password # th[t1].req.password

\* C8: in a sequential run a register request answered 200 stores for its
\* username the returned id and the supplied password, returns
\* {id, username, password}, draws an id that no stored user has, and leaves
\* posts_db and every other user's record as they were.
C8_RegisterSuccess ==
    [][\A user \in Users : (register(user) /\ last'.status_code = 200) =>
        /\ last'.body = [id |-> last'.body.id, username |-> user.username,
                         password |-> user.password]
        /\ users_db'[user.username] =
              [id |-> last'.body.id, password |-> user.password]
        /\ \A v \in DOMAIN users_db :
              /\ users_db[v].id # last'.body.id
              /\ users_db'[v] = users_db[v]
        /\ DOMAIN users_db' = DOMAIN users_db \cup {user.username}
        /\ \A v, w \in DOMAIN users_db' :
              v # w => users_db'[v].id # users_db'[w].id
        /\ posts_db' = posts_db]_vars

\* a second user registered while a post was stored
C8_Witness ==
    /\ last.op = "register"
    /\ last.status_code = 200
    /\ Cardinality(DOMAIN users_db) = 2
    /\ Len(posts_db) >= 1

\* C9: a register answered 400, a create_post answered 404, every login and
\* every list-posts leave users_db and posts_db as they were; a create_post
\* answered 200 leaves users_db as it was.
C9_Frame ==
    [][/\ \A user \in Users : (register(user) /\ last'.status_code = 400) =>
            UNCHANGED <<users_db, posts_db>>
       /\ \A user \in Users : login(user) => UNCHANGED <<users_db, posts_db>>
       /\ \A post \in Posts : create_post(post) =>
            /\ users_db' = users_db
            /\ last'.status_code # 200 => posts_db' = posts_db
       /\ get_posts => UNCHANGED <<users_db, posts_db>>]_vars

\* a create_post for an unregistered username was refused with a post stored
C9_Witness ==
    /\ last.op = "create_post"
    /\ last.status_code = 404
    /\ Len(posts_db) >= 1
    /\ Cardinality(DOMAIN users_db) = 1

\* C10: under any interleaving of the handlers' steps, the username of every
\* stored post is a key of users_db.
C10_NoOrphanPosts ==
    \A i \in 1..Len(posts_db) : posts_db[i].value.username \in DOMAIN users_db

\* a post is stored while another thread is between the existence check and
\* the write of a registration
C10_Witness ==
    /\ Len(posts_db) >= 1
    /\ \E t \in Threads : th[t].pc = "register:48"

====
